---- MODULE Spec2Model ----
(***************************************************************************)
(* Model of the Stockfish facade of src/chessengine.cc: the process-wide   *)
(* callback collection g_bestMoves, the process-wide mutex g_thinkLock,    *)
(* the delegated engine's global option table, and the per-instance result *)
(* list bestMoves, driven by client threads that call Initialize,          *)
(* SetOpeningBook, GenerateMoves, GenerateMovesWithSkill and the indexed   *)
(* accessors.  The delegated engine is an environment: it chooses the      *)
(* root-move list and delivers any sequence of move-found callbacks while  *)
(* the calling thread waits for the search to finish.                      *)
(***************************************************************************)
EXTENDS Integers, Sequences, FiniteSets, Bags, TLC

(* ------------------------------ bounds --------------------------------- *)
NumThreads   == 2     \* client threads
MaxCallbacks == 2     \* callbacks delivered during one search
MaxSearches  == 2     \* search calls started over a behaviour

Threads == 1..NumThreads
\* the StockfishChessEngine instances of the process
Engines == {1, 2}

(* values the delegated engine reports through the callback *)
Moves   == {1, 2}
Depths  == {1, 2}
Scores  == {0, 1}
\* the selective depth reported with a depth: one ply beyond it
SelDepths(depth) == {depth + 1}

(* values the callers pass (the TEST main of chessengine.cc uses these) *)
Elos        == {1200, 1500}
Skills      == {5}
Contempts   == {50}
DepthLimits == {10}
Times       == {1000}
HashSizes   == {16}
MoveCounts  == {6}
Books       == {1}
Indices     == -1..MaxCallbacks

(* ----------------------- conversions of the code ----------------------- *)
\* BoolToString, chessengine.cc:89-91
BoolToString(b) == IF b THEN "true" ELSE "false"

\* std::to_string(int): the decimal digits, most significant first, with a
\* leading "-" for a negative number
Digit(d) == <<"0", "1", "2", "3", "4", "5", "6", "7", "8", "9">>[d + 1]

RECURSIVE DigitsOf(_)
DigitsOf(n) == IF n < 10 THEN <<Digit(n)>>
               ELSE Append(DigitsOf(n \div 10), Digit(n % 10))

to_string(n) == IF n < 0 THEN <<"-">> \o DigitsOf(0 - n) ELSE DigitsOf(n)

\* the engine reading an option back as an integer (Option::operator int)
DigitValue(c) == CHOOSE d \in 0..9 : Digit(d) = c

RECURSIVE ParseDigits(_, _)
ParseDigits(s, acc) == IF s = <<>> THEN acc
                       ELSE ParseDigits(Tail(s), 10 * acc + DigitValue(Head(s)))

stoi(s) == IF s # <<>> /\ Head(s) = "-" THEN 0 - ParseDigits(Tail(s), 0)
           ELSE ParseDigits(s, 0)

\* UCI::move(move, chess960): the text of a move; MOVE_NONE prints "(none)"
MoveText(m) == IF m = 0 THEN "(none)"
               ELSE <<"e2e4", "d2d4", "g1f3", "c2c4">>[m]


(* ------------------------------- state --------------------------------- *)
VARIABLES
    g_bestMoves,   \* chessengine.cc:37, the callback collection, in key order
    g_thinkLock,   \* chessengine.cc:38, 0 when free, else the holding thread
    Options,       \* the delegated engine's global option table
    polybook,      \* the delegated engine's opening book, 0 when none loaded
    pvCallback,    \* Threads.main()->pvCallback: the engine it is bound to
    rootMoves,     \* Threads.main()->rootMoves
    states,        \* per engine: TRUE once Initialize allocated `states`
    bestMoves,     \* per engine: chessengine.cc:208, the result list
    pc,            \* per thread: its position in the call it is executing
    call,          \* per thread: the operation called and its arguments
    limits,        \* per thread: the local Search::LimitsType
    returnValue,   \* per thread: the local returnValue / the value returned
    it,            \* per thread: the drain loop's position in g_bestMoves
    reported,      \* history: the callbacks delivered in the current search
    searches       \* history: the number of search calls started

vars == <<g_bestMoves, g_thinkLock, Options, polybook, pvCallback, rootMoves,
          states, bestMoves, pc, call, limits, returnValue, it, reported,
          searches>>

\* struct MoveInfo, chessengine.cc:25-34
MoveInfo(move, depth, selDepth, score) ==
    [move |-> move, depth |-> depth, selDepth |-> selDepth, score |-> score]

\* MoveInfo::operator==, chessengine.cc:31-33: identity is the move alone
SameMove(a, b) == a.move = b.move

\* Search::LimitsType(): every field zero, depth 0 meaning no depth bound
NoLimits == [depth |-> 0, movetime |-> 0]

NoCall == [op |-> "none", engine |-> 0, minTime |-> 0, maxTime |-> 0,
           elo |-> 0, skill |-> 0, maxDepth |-> 0, contempt |-> 0,
           useOpeningBook |-> FALSE, index |-> 0, hash |-> 0,
           maxMoveCount |-> 0, book |-> 0]

SearchOps   == {"GenerateMoves", "GenerateMovesWithSkill"}
LockedOps   == SearchOps \cup {"Initialize"}
AccessorOps == {"GetMove", "GetMoveScore", "GetMoveDepth",
                "GetMoveCompletedDepth"}

\* Options[name] = value, on the option table
SetOption(opts, name, value) ==
    [n \in (DOMAIN opts) \cup {name} |-> IF n = name THEN value ELSE opts[n]]

RECURSIVE SetOptions(_, _)
SetOptions(opts, writes) ==
    IF writes = <<>> THEN opts
    ELSE SetOptions(SetOption(opts, Head(writes)[1], Head(writes)[2]),
                    Tail(writes))

\* UCI::init(Options), chessengine.cc:65: the engine's defaults
UciDefaults ==
    SetOptions(<<>>, <<
        <<"Threads", to_string(1)>>,
        <<"Hash", to_string(16)>>,
        <<"MultiPV", to_string(1)>>,
        <<"Minimum Thinking Time", to_string(20)>>,
        <<"UCI_LimitStrength", BoolToString(FALSE)>>,
        <<"UCI_Elo", to_string(1350)>>,
        <<"Skill Level", to_string(20)>>,
        <<"Contempt", to_string(24)>>,
        <<"OwnBook", BoolToString(FALSE)>> >>)

Init ==
    /\ g_bestMoves = <<>>
    /\ g_thinkLock = 0
    /\ Options = <<>>
    /\ polybook = 0
    /\ pvCallback = 0
    /\ rootMoves = <<>>
    /\ states = [e \in Engines |-> FALSE]
    /\ bestMoves = [e \in Engines |-> <<>>]
    /\ pc = [t \in Threads |-> "idle"]
    /\ call = [t \in Threads |-> NoCall]
    /\ limits = [t \in Threads |-> NoLimits]
    /\ returnValue = [t \in Threads |-> 0]
    /\ it = [t \in Threads |-> 0]
    /\ reported = <<>>
    /\ searches = 0


(* ----------------------- the callback collection ----------------------- *)
\* MultiMap::insert, chessengine.cc:59: an ordered multi-valued map puts a
\* new entry after every entry whose key is not greater than its own
UpperBound(coll, key) ==
    Cardinality({i \in 1..Len(coll) : coll[i].score <= key})

MultiMapInsert(coll, info) ==
    LET p == UpperBound(coll, info.score)
    IN  SubSeq(coll, 1, p) \o <<info>> \o SubSeq(coll, p + 1, Len(coll))

\* the collection dropped also when the new depth equals the last one's
DropsOnEqualDepth(coll, depth) ==
    /\ Len(coll) > 0
    /\ depth >= coll[Len(coll)].depth

\* chessengine.cc:49-57: the collection is dropped when the new depth is
\* greater than the depth of the entry before end()
DropsCollection(coll, depth) ==
    /\ Len(coll) > 0
    /\ depth > coll[Len(coll)].depth

\* OnMove, chessengine.cc:47-60; (float)v is exact on the engine's values
OnMoveResult(coll, move, depth, selDepth, v) ==
    LET moveInfo == MoveInfo(move, depth, selDepth, v)
    IN  MultiMapInsert(IF DropsCollection(coll, moveInfo.depth) THEN <<>>
                       ELSE coll,
                       moveInfo)

(* --------------------------- the result list --------------------------- *)
\* std::find(bestMoves.begin(), bestMoves.end(), pair.second) != end()
Found(list, info) == \E i \in 1..Len(list) : SameMove(list[i], info)

\* an entry of a move already in the list takes the place of the one there
DrainKeepsLast(list, info) ==
    IF Found(list, info)
    THEN [i \in 1..Len(list) |->
            IF SameMove(list[i], info) THEN info ELSE list[i]]
    ELSE Append(list, info)

\* one iteration of the drain loop, chessengine.cc:118-123
DrainOne(list, info) == IF Found(list, info) THEN list ELSE Append(list, info)

\* the synthetic entry of chessengine.cc:126
Fallback(roots) == MoveInfo(roots[1], 0, 0, 0)

\* the fallback taken whatever the caller's flag
FallbackWithoutFlag(useOpeningBook, roots) == Len(roots) > 0

\* the condition of the else-if of chessengine.cc:125
TakesFallback(useOpeningBook, roots) == useOpeningBook /\ Len(roots) > 0

\* the list left as it was
NotCleared(list) == list

\* bestMoves.clear(), chessengine.cc:114
Cleared(list) == <<>>

\* the list left in ascending order
NotReversed(list) == list

\* std::reverse, chessengine.cc:129
Reverse(list) == [i \in 1..Len(list) |-> list[Len(list) + 1 - i]]

\* The same steps as GenerateMovesWithSkill writes them, chessengine.cc:156-173.

\* bestMoves.clear(), chessengine.cc:156
ClearedWithSkill(list) == <<>>

\* every entry of the collection appended, found or not
DrainOneWithSkillNoFind(list, info) == Append(list, info)

\* one iteration of the drain loop, chessengine.cc:160-165
DrainOneWithSkill(list, info) ==
    IF \E i \in 1..Len(list) : SameMove(list[i], info)
    THEN list
    ELSE Append(list, info)

\* the size of the collection, duplicates included
CountCollectionWithSkill(list) == Len(g_bestMoves)

\* the value computed at chessengine.cc:166
CountResultsWithSkill(list) == Len(list)

\* the condition of the else-if of chessengine.cc:167
TakesFallbackWithSkill(useOpeningBook, roots) ==
    useOpeningBook /\ Len(roots) > 0

\* the synthetic entry of chessengine.cc:168
FallbackWithSkill(roots) == MoveInfo(roots[1], 0, 0, 0)

\* std::reverse, chessengine.cc:171
ReverseWithSkill(list) == [i \in 1..Len(list) |-> list[Len(list) + 1 - i]]

(* ---------------------------- the accessors ---------------------------- *)
\* A size_t (64 bits) as four 16-bit limbs, most significant first.
LimbBase == 65536

\* the conversion of the int index to size_t in `index >= bestMoves.size()`:
\* a negative int is sign-extended, i.e. the complement of (-index - 1)
ToSizeT(index) ==
    IF index >= 0
    THEN <<0, 0, index \div LimbBase, index % LimbBase>>
    ELSE <<LimbBase - 1, LimbBase - 1,
           LimbBase - 1 - ((0 - index - 1) \div LimbBase),
           LimbBase - 1 - ((0 - index - 1) % LimbBase)>>

\* a >= b on size_t
SizeTGreaterEq(a, b) ==
    IF a[1] # b[1] THEN a[1] > b[1]
    ELSE IF a[2] # b[2] THEN a[2] > b[2]
    ELSE IF a[3] # b[3] THEN a[3] > b[3]
    ELSE a[4] >= b[4]

\* the comparison made on signed integers
SignedPastEnd(index, size) == index >= size

\* the guard `index >= bestMoves.size()` of chessengine.cc:177,185,192,199
PastEnd(index, size) == SizeTGreaterEq(ToSizeT(index), ToSizeT(size))

\* bestMoves[index]; a read outside the vector is marked, not defined
OutsideVector == MoveInfo(0, -1, -1, -1)

Element(list, index) ==
    IF index + 1 \in DOMAIN list THEN list[index + 1] ELSE OutsideVector

\* GetMove, chessengine.cc:176-182; String{} is the empty string
GetMove(list, index) ==
    IF PastEnd(index, Len(list)) THEN ""
    ELSE MoveText(Element(list, index).move)

\* GetMoveScore, chessengine.cc:184-189
GetMoveScore(list, index) ==
    IF PastEnd(index, Len(list)) THEN 0 ELSE Element(list, index).score

\* GetMoveDepth, chessengine.cc:191-196
GetMoveDepth(list, index) ==
    IF PastEnd(index, Len(list)) THEN 0 ELSE Element(list, index).depth

\* GetMoveCompletedDepth, chessengine.cc:198-203
GetMoveCompletedDepth(list, index) ==
    IF PastEnd(index, Len(list)) THEN 0 ELSE Element(list, index).selDepth

AccessorValue(op, list, index) ==
    CASE op = "GetMove"               -> GetMove(list, index)
      [] op = "GetMoveScore"          -> GetMoveScore(list, index)
      [] op = "GetMoveDepth"          -> GetMoveDepth(list, index)
      [] op = "GetMoveCompletedDepth" -> GetMoveCompletedDepth(list, index)


(* ------------------------------ the lock ------------------------------- *)
\* a section entered without waiting for the mutex
NeverWaits(holder) == TRUE

\* std::lock_guard<std::mutex> guard(g_thinkLock), chessengine.cc:63,94,135:
\* the constructor returns only once the mutex is free
MayLock(holder) == holder = 0

(* ------------------------- option marshaling --------------------------- *)
\* chessengine.cc:65-77
InitializeOptions(c) ==
    SetOptions(UciDefaults, <<
        <<"Threads", to_string(1)>>,
        <<"MultiPV", to_string(c.maxMoveCount)>>,
        <<"Hash", to_string(c.hash)>> >>)

\* the writes of GenerateMoves without the one to "Skill Level"
GenerateMovesKeepsSkill(opts, c) ==
    SetOptions(opts, <<
        <<"Minimum Thinking Time", to_string(c.minTime)>>,
        <<"UCI_LimitStrength", BoolToString(TRUE)>>,
        <<"UCI_Elo", to_string(c.elo)>>,
        <<"Contempt", to_string(24)>>,
        <<"OwnBook", BoolToString(c.useOpeningBook)>> >>)

\* chessengine.cc:95-100
GenerateMovesOptions(opts, c) ==
    SetOptions(opts, <<
        <<"Minimum Thinking Time", to_string(c.minTime)>>,
        <<"UCI_LimitStrength", BoolToString(TRUE)>>,
        <<"UCI_Elo", to_string(c.elo)>>,
        <<"Skill Level", to_string(20)>>,
        <<"Contempt", to_string(24)>>,
        <<"OwnBook", BoolToString(c.useOpeningBook)>> >>)

\* chessengine.cc:136-141
GenerateMovesWithSkillOptions(opts, c) ==
    SetOptions(opts, <<
        <<"Minimum Thinking Time", to_string(c.minTime)>>,
        <<"UCI_LimitStrength", BoolToString(FALSE)>>,
        <<"UCI_Elo", to_string(1350)>>,
        <<"Skill Level", to_string(c.skill)>>,
        <<"Contempt", to_string(c.contempt)>>,
        <<"OwnBook", BoolToString(c.useOpeningBook)>> >>)

\* chessengine.cc:103-105
GenerateMovesLimits(c) == [NoLimits EXCEPT !.movetime = c.maxTime]

\* chessengine.cc:144-147
GenerateMovesWithSkillLimits(c) ==
    [NoLimits EXCEPT !.depth = c.maxDepth, !.movetime = c.maxTime]

(* ------------------------------ actions -------------------------------- *)
\* a thread enters Initialize (once per engine, before any search on it)
CallInitialize(t) ==
    /\ pc[t] = "idle"
    /\ \E e \in Engines, h \in HashSizes, n \in MoveCounts :
          /\ ~states[e]
          /\ \A u \in Threads :
                ~(call[u].op = "Initialize" /\ call[u].engine = e)
          /\ call' = [call EXCEPT ![t] =
                [NoCall EXCEPT !.op = "Initialize", !.engine = e,
                               !.hash = h, !.maxMoveCount = n]]
    /\ pc' = [pc EXCEPT ![t] = "lock"]
    /\ UNCHANGED <<g_bestMoves, g_thinkLock, Options, polybook, pvCallback,
                   rootMoves, states, bestMoves, limits, returnValue, it,
                   reported, searches>>

\* a thread enters GenerateMoves
CallGenerateMoves(t) ==
    /\ pc[t] = "idle"
    /\ searches < MaxSearches
    /\ \E e \in Engines, mn \in Times, mx \in Times, elo \in Elos,
          book \in BOOLEAN :
          /\ states[e]
          /\ call' = [call EXCEPT ![t] =
                [NoCall EXCEPT !.op = "GenerateMoves", !.engine = e,
                               !.minTime = mn, !.maxTime = mx, !.elo = elo,
                               !.useOpeningBook = book]]
    /\ searches' = searches + 1
    /\ pc' = [pc EXCEPT ![t] = "lock"]
    /\ UNCHANGED <<g_bestMoves, g_thinkLock, Options, polybook, pvCallback,
                   rootMoves, states, bestMoves, limits, returnValue, it,
                   reported>>

\* a thread enters GenerateMovesWithSkill
CallGenerateMovesWithSkill(t) ==
    /\ pc[t] = "idle"
    /\ searches < MaxSearches
    /\ \E e \in Engines, mn \in Times, mx \in Times, skill \in Skills,
          depth \in DepthLimits, contempt \in Contempts, book \in BOOLEAN :
          /\ states[e]
          /\ call' = [call EXCEPT ![t] =
                [NoCall EXCEPT !.op = "GenerateMovesWithSkill", !.engine = e,
                               !.minTime = mn, !.maxTime = mx,
                               !.skill = skill, !.maxDepth = depth,
                               !.contempt = contempt,
                               !.useOpeningBook = book]]
    /\ searches' = searches + 1
    /\ pc' = [pc EXCEPT ![t] = "lock"]
    /\ UNCHANGED <<g_bestMoves, g_thinkLock, Options, polybook, pvCallback,
                   rootMoves, states, bestMoves, limits, returnValue, it,
                   reported>>

\* the lock_guard constructor, chessengine.cc:63,94,135
Acquire(t) ==
    /\ pc[t] = "lock"
    /\ MayLock(g_thinkLock)
    /\ g_thinkLock' = t
    /\ pc' = [pc EXCEPT ![t] =
                IF call[t].op = "Initialize" THEN "init" ELSE "config"]
    /\ UNCHANGED <<g_bestMoves, Options, polybook, pvCallback, rootMoves,
                   states, bestMoves, call, limits, returnValue, it,
                   reported, searches>>

\* an Initialize that also empties the callback collection
InitializeClearsCollection(t) ==
    /\ pc[t] = "init"
    /\ Options' = InitializeOptions(call[t])
    /\ pvCallback' = call[t].engine
    /\ states' = [states EXCEPT ![call[t].engine] = TRUE]
    /\ returnValue' = [returnValue EXCEPT ![t] = 1]
    /\ pc' = [pc EXCEPT ![t] = "return"]
    /\ g_bestMoves' = <<>>
    /\ UNCHANGED <<g_thinkLock, polybook, rootMoves, bestMoves, call, limits,
                   it, reported, searches>>

\* the body of Initialize, chessengine.cc:65-81
InitializeBody(t) ==
    /\ pc[t] = "init"
    /\ Options' = InitializeOptions(call[t])
    /\ pvCallback' = call[t].engine
    /\ states' = [states EXCEPT ![call[t].engine] = TRUE]
    /\ returnValue' = [returnValue EXCEPT ![t] = 1]
    /\ pc' = [pc EXCEPT ![t] = "return"]
    /\ UNCHANGED <<g_bestMoves, g_thinkLock, polybook, rootMoves, bestMoves,
                   call, limits, it, reported, searches>>

\* chessengine.cc:95-105
ConfigureGenerateMoves(t) ==
    /\ pc[t] = "config"
    /\ call[t].op = "GenerateMoves"
    /\ Options' = GenerateMovesOptions(Options, call[t])
    /\ limits' = [limits EXCEPT ![t] = GenerateMovesLimits(call[t])]
    /\ pc' = [pc EXCEPT ![t] = "start"]
    /\ UNCHANGED <<g_bestMoves, g_thinkLock, polybook, pvCallback, rootMoves,
                   states, bestMoves, call, returnValue, it, reported,
                   searches>>

\* chessengine.cc:136-147
ConfigureGenerateMovesWithSkill(t) ==
    /\ pc[t] = "config"
    /\ call[t].op = "GenerateMovesWithSkill"
    /\ Options' = GenerateMovesWithSkillOptions(Options, call[t])
    /\ limits' = [limits EXCEPT ![t] = GenerateMovesWithSkillLimits(call[t])]
    /\ pc' = [pc EXCEPT ![t] = "start"]
    /\ UNCHANGED <<g_bestMoves, g_thinkLock, polybook, pvCallback, rootMoves,
                   states, bestMoves, call, returnValue, it, reported,
                   searches>>

\* the root-move lists the delegated engine can set up for a position
RootMoveLists == {<<>>} \cup {<<m>> : m \in Moves}

\* chessengine.cc:107-111 and 149-153: the collection is cleared and the
\* delegated search started, which sets up its root-move list
StartSearch(t) ==
    /\ pc[t] = "start"
    /\ g_bestMoves' = <<>>
    /\ \E roots \in RootMoveLists : rootMoves' = roots
    /\ reported' = <<>>
    /\ pc' = [pc EXCEPT ![t] = "search"]
    /\ UNCHANGED <<g_thinkLock, Options, polybook, pvCallback, states,
                   bestMoves, call, limits, returnValue, it, searches>>

\* the delegated engine's search thread invokes pvCallback, which runs
\* OnMove (chessengine.cc:47-60,78) while thread t waits at line 112/154
OnMove(t) ==
    /\ pc[t] = "search"
    /\ pvCallback # 0
    /\ Len(reported) < MaxCallbacks
    /\ \E move \in Moves, depth \in Depths, v \in Scores :
        \E selDepth \in SelDepths(depth) :
          /\ g_bestMoves' = OnMoveResult(g_bestMoves, move, depth, selDepth, v)
          /\ reported' = Append(reported, MoveInfo(move, depth, selDepth, v))
    /\ UNCHANGED <<g_thinkLock, Options, polybook, pvCallback, rootMoves,
                   states, bestMoves, pc, call, limits, returnValue, it,
                   searches>>

\* wait_for_search_finished returns, chessengine.cc:112,154
SearchFinished(t) ==
    /\ pc[t] = "search"
    /\ pc' = [pc EXCEPT ![t] = "clear"]
    /\ UNCHANGED <<g_bestMoves, g_thinkLock, Options, polybook, pvCallback,
                   rootMoves, states, bestMoves, call, limits, returnValue,
                   it, reported, searches>>

\* chessengine.cc:114-116 and 156-158
ClearResults(t) ==
    /\ pc[t] = "clear"
    /\ bestMoves' = [bestMoves EXCEPT ![call[t].engine] =
                        IF call[t].op = "GenerateMoves"
                        THEN Cleared(@)
                        ELSE ClearedWithSkill(@)]
    /\ returnValue' = [returnValue EXCEPT ![t] = -1]
    /\ it' = [it EXCEPT ![t] = 1]
    /\ pc' = [pc EXCEPT ![t] = "collect"]
    /\ UNCHANGED <<g_bestMoves, g_thinkLock, Options, polybook, pvCallback,
                   rootMoves, states, call, limits, reported, searches>>

\* one iteration of the loop of chessengine.cc:118-123 / 160-165
DrainStep(t) ==
    /\ pc[t] = "collect"
    /\ Len(g_bestMoves) > 0
    /\ it[t] <= Len(g_bestMoves)
    /\ bestMoves' = [bestMoves EXCEPT ![call[t].engine] =
                        IF call[t].op = "GenerateMoves"
                        THEN DrainOne(@, g_bestMoves[it[t]])
                        ELSE DrainOneWithSkill(@, g_bestMoves[it[t]])]
    /\ it' = [it EXCEPT ![t] = @ + 1]
    /\ UNCHANGED <<g_bestMoves, g_thinkLock, Options, polybook, pvCallback,
                   rootMoves, states, pc, call, limits, returnValue,
                   reported, searches>>

\* a count of the collection instead of the deduplicated list
CountCollection(list) == Len(g_bestMoves)

\* the value computed at chessengine.cc:124
CountResults(list) == Len(list)

\* the loop ends: chessengine.cc:124 / 166
DrainDone(t) ==
    /\ pc[t] = "collect"
    /\ Len(g_bestMoves) > 0
    /\ it[t] > Len(g_bestMoves)
    /\ returnValue' = [returnValue EXCEPT ![t] =
                          IF call[t].op = "GenerateMoves"
                          THEN CountResults(bestMoves[call[t].engine])
                          ELSE CountResultsWithSkill(bestMoves[call[t].engine])]
    /\ pc' = [pc EXCEPT ![t] = "reverse"]
    /\ UNCHANGED <<g_bestMoves, g_thinkLock, Options, polybook, pvCallback,
                   rootMoves, states, bestMoves, call, limits, it, reported,
                   searches>>

\* the else branch, chessengine.cc:125-127 / 167-169
FallbackStep(t) ==
    /\ pc[t] = "collect"
    /\ Len(g_bestMoves) = 0
    /\ bestMoves' = [bestMoves EXCEPT ![call[t].engine] =
                        IF call[t].op = "GenerateMoves"
                        THEN IF TakesFallback(call[t].useOpeningBook, rootMoves)
                             THEN Append(@, Fallback(rootMoves))
                             ELSE @
                        ELSE IF TakesFallbackWithSkill(call[t].useOpeningBook,
                                                       rootMoves)
                             THEN Append(@, FallbackWithSkill(rootMoves))
                             ELSE @]
    /\ pc' = [pc EXCEPT ![t] = "reverse"]
    /\ UNCHANGED <<g_bestMoves, g_thinkLock, Options, polybook, pvCallback,
                   rootMoves, states, call, limits, returnValue, it,
                   reported, searches>>

\* chessengine.cc:129 / 171
ReverseResults(t) ==
    /\ pc[t] = "reverse"
    /\ bestMoves' = [bestMoves EXCEPT ![call[t].engine] =
                        IF call[t].op = "GenerateMoves"
                        THEN Reverse(@)
                        ELSE ReverseWithSkill(@)]
    /\ pc' = [pc EXCEPT ![t] = "return"]
    /\ UNCHANGED <<g_bestMoves, g_thinkLock, Options, polybook, pvCallback,
                   rootMoves, states, call, limits, returnValue, it,
                   reported, searches>>

\* a thread enters SetOpeningBook, chessengine.cc:84
CallSetOpeningBook(t) ==
    /\ pc[t] = "idle"
    /\ \E e \in Engines, b \in Books :
          call' = [call EXCEPT ![t] =
                [NoCall EXCEPT !.op = "SetOpeningBook", !.engine = e,
                               !.book = b]]
    /\ pc' = [pc EXCEPT ![t] = "book"]
    /\ UNCHANGED <<g_bestMoves, g_thinkLock, Options, polybook, pvCallback,
                   rootMoves, states, bestMoves, limits, returnValue, it,
                   reported, searches>>

\* polybook.init, chessengine.cc:85-86
SetOpeningBookBody(t) ==
    /\ pc[t] = "book"
    /\ polybook' = call[t].book
    /\ returnValue' = [returnValue EXCEPT ![t] = 1]
    /\ pc' = [pc EXCEPT ![t] = "return"]
    /\ UNCHANGED <<g_bestMoves, g_thinkLock, Options, pvCallback, rootMoves,
                   states, bestMoves, call, limits, it, reported, searches>>

\* an accessor that reads only while no thread holds the lock
LockedAccessor(t) ==
    /\ pc[t] = "idle"
    /\ g_thinkLock = 0
    /\ \E op \in AccessorOps, e \in Engines, index \in Indices :
          /\ call' = [call EXCEPT ![t] =
                [NoCall EXCEPT !.op = op, !.engine = e, !.index = index]]
          /\ returnValue' = [returnValue EXCEPT ![t] =
                AccessorValue(op, bestMoves[e], index)]
    /\ pc' = [pc EXCEPT ![t] = "return"]
    /\ UNCHANGED <<g_bestMoves, g_thinkLock, Options, polybook, pvCallback,
                   rootMoves, states, bestMoves, limits, it, reported,
                   searches>>

\* GetMove / GetMoveScore / GetMoveDepth / GetMoveCompletedDepth,
\* chessengine.cc:176-203: no lock is taken
Accessor(t) ==
    /\ pc[t] = "idle"
    /\ \E op \in AccessorOps, e \in Engines, index \in Indices :
          /\ call' = [call EXCEPT ![t] =
                [NoCall EXCEPT !.op = op, !.engine = e, !.index = index]]
          /\ returnValue' = [returnValue EXCEPT ![t] =
                AccessorValue(op, bestMoves[e], index)]
    /\ pc' = [pc EXCEPT ![t] = "return"]
    /\ UNCHANGED <<g_bestMoves, g_thinkLock, Options, polybook, pvCallback,
                   rootMoves, states, bestMoves, limits, it, reported,
                   searches>>

\* a guard that goes out of scope without unlocking
StaysLocked(holder) == holder

\* the lock_guard destructor at the closing brace of a locking operation,
\* chessengine.cc:82,132,174: g_thinkLock.unlock()
Unlocked(holder) == 0

\* the call returns; the lock_guard of a locking operation releases the
\* mutex (chessengine.cc:81,131,173)
Return(t) ==
    /\ pc[t] = "return"
    /\ g_thinkLock' = IF call[t].op \in LockedOps
                    THEN Unlocked(g_thinkLock)
                    ELSE g_thinkLock
    /\ pc' = [pc EXCEPT ![t] = "idle"]
    /\ call' = [call EXCEPT ![t] = NoCall]
    /\ limits' = [limits EXCEPT ![t] = NoLimits]
    /\ returnValue' = [returnValue EXCEPT ![t] = 0]
    /\ it' = [it EXCEPT ![t] = 0]
    /\ reported' = IF call[t].op \in SearchOps THEN <<>> ELSE reported
    /\ UNCHANGED <<g_bestMoves, Options, polybook, pvCallback, rootMoves,
                   states, bestMoves, searches>>

Step(t) ==
    \/ CallInitialize(t)
    \/ CallGenerateMoves(t)
    \/ CallGenerateMovesWithSkill(t)
    \/ CallSetOpeningBook(t)
    \/ Acquire(t)
    \/ InitializeBody(t)
    \/ ConfigureGenerateMoves(t)
    \/ ConfigureGenerateMovesWithSkill(t)
    \/ StartSearch(t)
    \/ OnMove(t)
    \/ SearchFinished(t)
    \/ ClearResults(t)
    \/ DrainStep(t)
    \/ DrainDone(t)
    \/ FallbackStep(t)
    \/ ReverseResults(t)
    \/ SetOpeningBookBody(t)
    \/ Accessor(t)
    \/ Return(t)

(* One client thread using one engine instance: every sequence of calls,   *)
(* with every sequence of callbacks in each search.                        *)
OneClient == \A t \in Threads : call[t].engine \in {0, 1}

Next == \E t \in {1} : Step(t) /\ OneClient'

Spec == Init /\ [][Next]_vars

(* Concurrent client threads on both engine instances, calling the         *)
(* operations that change engine state.  The data is cut down (one Elo,    *)
(* one callback value, one root move) so that every interleaving of the    *)
(* calls is explored.                                                      *)
LockStep(t) ==
    \/ CallInitialize(t)
    \/ CallGenerateMoves(t)
    \/ CallGenerateMovesWithSkill(t)
    \/ CallSetOpeningBook(t)
    \/ Acquire(t)
    \/ InitializeBody(t)
    \/ ConfigureGenerateMoves(t)
    \/ ConfigureGenerateMovesWithSkill(t)
    \/ StartSearch(t)
    \/ OnMove(t)
    \/ SearchFinished(t)
    \/ ClearResults(t)
    \/ DrainStep(t)
    \/ DrainDone(t)
    \/ FallbackStep(t)
    \/ ReverseResults(t)
    \/ SetOpeningBookBody(t)
    \/ Return(t)

SmallData ==
    /\ Len(reported) <= 1
    /\ \A i \in 1..Len(reported) : reported[i] = MoveInfo(1, 1, 2, 0)
    /\ rootMoves \in {<<>>, <<1>>}
    /\ \A t \in Threads :
          /\ call[t].elo \in {0, 1200}
          /\ call[t].op = "SetOpeningBook" => call[t].engine = 1

NextThreads == \E t \in Threads : LockStep(t) /\ SmallData'

SpecThreads == Init /\ [][NextThreads]_vars

(* Concurrent callers of the three locking operations under fair           *)
(* scheduling: a thread inside a call that can take its next step           *)
(* eventually takes it, and a started search eventually signals that it    *)
(* has finished (SearchFinished).  Entering a call and the engine's        *)
(* callbacks carry no fairness.  Searches run on engine 1 with the         *)
(* opening-book flag set, so that both -1 paths and the counted path occur. *)
FairStep(t) ==
    \/ CallInitialize(t)
    \/ CallGenerateMoves(t)
    \/ CallGenerateMovesWithSkill(t)
    \/ Acquire(t)
    \/ InitializeBody(t)
    \/ ConfigureGenerateMoves(t)
    \/ ConfigureGenerateMovesWithSkill(t)
    \/ StartSearch(t)
    \/ OnMove(t)
    \/ SearchFinished(t)
    \/ ClearResults(t)
    \/ DrainStep(t)
    \/ DrainDone(t)
    \/ FallbackStep(t)
    \/ ReverseResults(t)
    \/ Return(t)

FairData ==
    /\ SmallData
    /\ \A t \in Threads :
          call[t].op \in SearchOps =>
              call[t].engine = 1 /\ call[t].useOpeningBook

NextFair == \E t \in Threads : FairStep(t) /\ FairData'

Forward(t) ==
    \/ Acquire(t)
    \/ InitializeBody(t)
    \/ ConfigureGenerateMoves(t)
    \/ ConfigureGenerateMovesWithSkill(t)
    \/ StartSearch(t)
    \/ SearchFinished(t)
    \/ ClearResults(t)
    \/ DrainStep(t)
    \/ DrainDone(t)
    \/ FallbackStep(t)
    \/ ReverseResults(t)
    \/ Return(t)

SpecFair ==
    /\ Init
    /\ [][NextFair]_vars
    /\ \A t \in Threads : WF_vars(Forward(t) /\ FairData')

(* Concurrent client threads with the accessors: searches, accessors and   *)
(* SetOpeningBook on engine 1, Initialize on both engines.  A search       *)
(* reports move 1 with score 0 and then move 2 with score 1, or a prefix   *)
(* of that, so that the order of the result list shows in what GetMove(0)  *)
(* returns.                                                                *)
RaceData ==
    /\ reported \in {<<>>, <<MoveInfo(1, 1, 2, 0)>>,
                      <<MoveInfo(1, 1, 2, 0), MoveInfo(2, 1, 2, 1)>>}
    /\ rootMoves \in {<<>>, <<1>>}
    /\ \A t \in Threads :
          /\ call[t].elo \in {0, 1200}
          /\ call[t].op # "Initialize" => call[t].engine \in {0, 1}
          /\ call[t].op \in SearchOps => call[t].useOpeningBook
          /\ call[t].op \in AccessorOps =>
                call[t].op = "GetMove" /\ call[t].index = 0

NextRace == \E t \in Threads : Step(t) /\ RaceData'

SpecRace == Init /\ [][NextRace]_vars


(* ============================== claims ================================= *)
\* thread t is at the return statement of a search call (chessengine.cc:131
\* / 173): the result list is final and the lock still held
AtReturn(t) == pc[t] = "return" /\ call[t].op \in SearchOps

Results(t) == bestMoves[call[t].engine]

\* C1 as stated: a search call returns the number of entries of the result
\* set it leaves behind, and -1 only when the result set is empty; with the
\* fallback entry the return value is not -1.
C1_ReturnsSizeOfResultSet ==
    \A t \in Threads :
        AtReturn(t) =>
            /\ Len(Results(t)) > 0 => returnValue[t] = Len(Results(t))
            /\ returnValue[t] = -1 => Len(Results(t)) = 0

\* C1 amended: a search call returns the number of entries of the result
\* set when a callback was delivered during the search, and -1 when none
\* was; -1 is returned also when the fallback produced the one synthetic
\* entry, so the result set then holds one entry and the value is -1.
C1_ReturnsCountOrMinusOne ==
    \A t \in Threads :
        AtReturn(t) =>
            IF Len(reported) > 0
            THEN returnValue[t] = Len(Results(t)) /\ returnValue[t] >= 1
            ELSE /\ returnValue[t] = -1
                 /\ Len(Results(t)) =
                        IF call[t].useOpeningBook /\ rootMoves # <<>>
                        THEN 1 ELSE 0

C1_Witness ==
    \E t \in Threads :
        /\ AtReturn(t)
        /\ returnValue[t] = -1
        /\ Len(Results(t)) = 1
        /\ Results(t)[1].depth = 0

\* a thread is between bestMoves.clear() and std::reverse on engine e
Draining(e) ==
    \E t \in Threads :
        call[t].engine = e /\ pc[t] \in {"collect", "reverse"}

\* C2: whenever no search call is in the middle of rebuilding an engine's
\* result list, GetMoveScore(i) >= GetMoveScore(i+1) for every i with
\* 0 <= i and i+1 < size.
C2_BestFirst ==
    \A e \in Engines :
        ~Draining(e) =>
            \A i \in 0..(Len(bestMoves[e]) - 2) :
                GetMoveScore(bestMoves[e], i)
                    >= GetMoveScore(bestMoves[e], i + 1)

C2_Witness ==
    \E t \in Threads :
        /\ AtReturn(t)
        /\ Len(Results(t)) = 2
        /\ Results(t)[1].score > Results(t)[2].score
        /\ reported[1].score > reported[2].score


\* thread t is inside the configuration + search + result-drain section of
\* Initialize, GenerateMoves or GenerateMovesWithSkill
InSection(t) ==
    /\ call[t].op \in LockedOps
    /\ pc[t] \in {"init", "config", "start", "search", "clear", "collect",
                  "reverse", "return"}

\* C3: at most one thread, over all engine instances, is inside the section
\* from the first option write to the end of the drain and reversal, and
\* that thread holds the lock throughout.
C3_OneThreadInSection ==
    \A t \in Threads :
        InSection(t) =>
            /\ g_thinkLock = t
            /\ \A u \in Threads \ {t} : ~InSection(u)

C3_Witness ==
    \E t \in Threads, u \in Threads :
        /\ pc[t] = "search"
        /\ pc[u] = "lock"
        /\ call[u].op \in SearchOps
        /\ call[u].engine # call[t].engine

\* the option table and the limits that thread t's arguments call for
IntOption(name) == stoi(Options[name])

OptionsOf(t) ==
    LET c == call[t]
    IN  /\ IntOption("Minimum Thinking Time") = c.minTime
        /\ Options["OwnBook"] = (IF c.useOpeningBook THEN "true" ELSE "false")
        /\ limits[t].movetime = c.maxTime
        /\ IF c.op = "GenerateMoves"
           THEN /\ Options["UCI_LimitStrength"] = "true"
                /\ IntOption("UCI_Elo") = c.elo
                /\ IntOption("Skill Level") = 20
                /\ IntOption("Contempt") = 24
                /\ limits[t].depth = 0
           ELSE /\ Options["UCI_LimitStrength"] = "false"
                /\ IntOption("Skill Level") = c.skill
                /\ IntOption("Contempt") = c.contempt
                /\ limits[t].depth = c.maxDepth

\* C4: when a search is started, and for as long as it runs, the options in
\* force and the limits are exactly those of the calling thread's
\* arguments, under every interleaving and after every history of calls.
C4_OptionsOfCaller ==
    \A t \in Threads :
        (call[t].op \in SearchOps /\ pc[t] \in {"start", "search"})
            => OptionsOf(t)

C4_Witness ==
    \E t \in Threads, u \in Threads :
        /\ pc[t] = "search"
        /\ call[t].op = "GenerateMoves"
        /\ searches = 2
        /\ pc[u] = "lock"
        /\ call[u].op = "GenerateMovesWithSkill"
        /\ call[u].useOpeningBook # call[t].useOpeningBook

\* C5 as stated: no thread is inside SetOpeningBook while another thread is
\* inside a search call holding the lock.
C5_AllOperationsSerialized ==
    \A t \in Threads, u \in Threads :
        ~ /\ pc[t] = "book"
          /\ call[u].op \in SearchOps
          /\ InSection(u)
          /\ g_thinkLock = u


\* index is a position of the list, counted from 0
InRange(list, index) == 0 <= index /\ index < Len(list)

\* C6: an accessor call with an index that is negative or not below the
\* size of the result list returns its sentinel ("" for GetMove, 0 for the
\* others) and reads nothing outside the list; with an index in [0, size)
\* it returns its field of the entry at that index.
C6_AccessorsTotal ==
    \A t \in Threads :
        (pc[t] = "return" /\ call[t].op \in AccessorOps) =>
            LET list == bestMoves[call[t].engine]
                index == call[t].index
            IN  IF InRange(list, index)
                THEN /\ ~PastEnd(index, Len(list))
                     /\ CASE call[t].op = "GetMove" ->
                               /\ returnValue[t] = MoveText(list[index + 1].move)
                               /\ returnValue[t] # ""
                          [] call[t].op = "GetMoveScore" ->
                               returnValue[t] = list[index + 1].score
                          [] call[t].op = "GetMoveDepth" ->
                               returnValue[t] = list[index + 1].depth
                          [] call[t].op = "GetMoveCompletedDepth" ->
                               returnValue[t] = list[index + 1].selDepth
                ELSE /\ PastEnd(index, Len(list))
                     /\ IF call[t].op = "GetMove"
                        THEN returnValue[t] = ""
                        ELSE returnValue[t] = 0

C6_Witness ==
    \E t \in Threads :
        /\ pc[t] = "return"
        /\ call[t].op = "GetMoveCompletedDepth"
        /\ call[t].index < 0
        /\ Len(bestMoves[call[t].engine]) = 2
        /\ returnValue[t] = 0

\* the entries delivered by the callbacks of the current search
Delivered == {reported[i] : i \in 1..Len(reported)}

\* the fallback entry of the call of thread t, when the call asked for it
\* and the engine has a root move
FallbackOf(t) ==
    IF call[t].useOpeningBook /\ Len(rootMoves) > 0
    THEN {[move |-> rootMoves[1], depth |-> 0, selDepth |-> 0, score |-> 0]}
    ELSE {}

\* C7: when a search call returns, every entry of the result set was
\* delivered by a callback of that call or is that call's fallback entry,
\* whatever earlier calls left behind; if the call produced nothing the
\* result set is empty.
C7_Overwrites ==
    \A t \in Threads :
        AtReturn(t) =>
            /\ \A i \in 1..Len(Results(t)) :
                  Results(t)[i] \in Delivered \cup FallbackOf(t)
            /\ (Delivered \cup FallbackOf(t) = {}) => Results(t) = <<>>

C7_Witness ==
    \E t \in Threads :
        /\ AtReturn(t)
        /\ searches = 2
        /\ Len(g_bestMoves) = 1
        /\ Len(Results(t)) = 1

\* C8: when a search call returns after a search that delivered no callback,
\* with useOpeningBook true and a non-empty root-move list, the result set
\* is exactly the one entry (first root move, depth 0, completed depth 0,
\* score 0); after a search that delivered a callback the fallback entry is
\* not in the result set; with no callback and useOpeningBook false or no
\* root move the result set is empty.
C8_FallbackOnlyWhenEmpty ==
    \A t \in Threads :
        AtReturn(t) =>
            IF Delivered = {}
            THEN IF call[t].useOpeningBook /\ rootMoves # <<>>
                 THEN Results(t) = <<[move |-> rootMoves[1], depth |-> 0,
                                      selDepth |-> 0, score |-> 0]>>
                 ELSE Results(t) = <<>>
            ELSE \A i \in 1..Len(Results(t)) :
                    Results(t)[i].depth # 0 /\ Results(t)[i] \in Delivered

C8_Witness ==
    \E t \in Threads :
        /\ AtReturn(t)
        /\ Delivered = {}
        /\ call[t].useOpeningBook
        /\ rootMoves = <<2>>
        /\ Results(t) = <<[move |-> 2, depth |-> 0, selDepth |-> 0,
                           score |-> 0]>>


\* a search is running: callbacks arrive and the collection is theirs
Searching == \E t \in Threads : pc[t] = "search"

\* the greatest depth reported so far in the current search
GreatestDepth ==
    CHOOSE d \in {reported[i].depth : i \in 1..Len(reported)} :
        \A i \in 1..Len(reported) : reported[i].depth <= d

InCollection(info) == \E i \in 1..Len(g_bestMoves) : g_bestMoves[i] = info

\* C9 as stated: at every point of a search the collection holds exactly
\* the entries reported at the greatest depth so far: none of a shallower
\* depth is retained and none of the greatest depth is lost.
C9_OnlyDeepestRetained ==
    (Searching /\ reported # <<>>) =>
        /\ \A i \in 1..Len(g_bestMoves) :
              g_bestMoves[i].depth = GreatestDepth
        /\ \A i \in 1..Len(reported) :
              reported[i].depth = GreatestDepth => InCollection(reported[i])

\* the list without its p-th element
Without(list, p) == SubSeq(list, 1, p - 1) \o SubSeq(list, p + 1, Len(list))

\* the collection is in ascending order of score
Ascending(coll) ==
    \A i \in 1..(Len(coll) - 1) : coll[i].score <= coll[i + 1].score

\* C10: one callback step.  The collection is kept in ascending score
\* order, so its last entry is its highest-score entry, the last inserted
\* among equal scores.  If the collection is non-empty and the reported
\* depth is strictly greater than that entry's depth, the collection after
\* the step is exactly the new entry; otherwise it is the previous
\* collection with the new entry added after every entry of a score not
\* greater than its own, nothing removed.
C10_CallbackStep ==
    [][ (Len(reported') = Len(reported) + 1) =>
            LET new == reported'[Len(reported')]
            IN  /\ Ascending(g_bestMoves) /\ Ascending(g_bestMoves')
                /\ IF /\ g_bestMoves # <<>>
                      /\ new.depth > g_bestMoves[Len(g_bestMoves)].depth
                   THEN g_bestMoves' = <<new>>
                   ELSE \E p \in 1..Len(g_bestMoves') :
                          /\ g_bestMoves'[p] = new
                          /\ Without(g_bestMoves', p) = g_bestMoves
                          /\ \A q \in 1..(p - 1) :
                                g_bestMoves'[q].score <= new.score
                          /\ \A q \in (p + 1)..Len(g_bestMoves') :
                                g_bestMoves'[q].score > new.score
      ]_vars

C10_Witness ==
    /\ Searching
    /\ Len(reported) = 2
    /\ reported[2].depth > reported[1].depth
    /\ g_bestMoves = <<reported[2]>>


\* the position in the collection of the first entry of a move, in
\* ascending-score iteration
FirstOf(coll, move) ==
    CHOOSE k \in 1..Len(coll) :
        /\ coll[k].move = move
        /\ \A j \in 1..(k - 1) : coll[j].move # move

\* C11: when a search call returns, no two entries of the result set have
\* the same move, every move of the collection has its entry, and the entry
\* of a move is the first one of that move in ascending-score iteration of
\* the collection, so it carries the move's lowest score.
C11_FirstOfEachMove ==
    \A t \in Threads :
        AtReturn(t) =>
            /\ \A i \in 1..Len(Results(t)), j \in 1..Len(Results(t)) :
                  Results(t)[i].move = Results(t)[j].move => i = j
            /\ \A k \in 1..Len(g_bestMoves) :
                  \E i \in 1..Len(Results(t)) :
                      /\ Results(t)[i] =
                            g_bestMoves[FirstOf(g_bestMoves,
                                                g_bestMoves[k].move)]
                      /\ Results(t)[i].score <= g_bestMoves[k].score
            /\ g_bestMoves # <<>> =>
                  \A i \in 1..Len(Results(t)) : InCollection(Results(t)[i])

C11_Witness ==
    \E t \in Threads :
        /\ AtReturn(t)
        /\ Len(g_bestMoves) = 2
        /\ g_bestMoves[1].move = g_bestMoves[2].move
        /\ g_bestMoves[1].score < g_bestMoves[2].score
        /\ Results(t) = <<g_bestMoves[1]>>

\* the position in the callback history of the latest report of a move
LatestOf(move) ==
    CHOOSE k \in 1..Len(reported) :
        /\ reported[k].move = move
        /\ \A j \in (k + 1)..Len(reported) : reported[j].move # move

\* C12 as stated: when a search call returns after a search that delivered
\* callbacks, the result-set entry of a move carries the score, depth and
\* completed depth of the latest report of that move in the search.
C12_LatestSupersedes ==
    \A t \in Threads :
        (AtReturn(t) /\ reported # <<>>) =>
            \A i \in 1..Len(Results(t)) :
                Results(t)[i] = reported[LatestOf(Results(t)[i].move)]

\* The list lines 117-124 of GenerateMoves build from a collection, entry by
\* entry from position k on.
RECURSIVE DrainFrom(_, _, _)
DrainFrom(list, coll, k) ==
    IF k > Len(coll) THEN list
    ELSE DrainFrom(DrainOne(list, coll[k]), coll, k + 1)

\* What GenerateMoves leaves and returns (chessengine.cc:114-131) for a given
\* collection, root move list and opening-book flag.
GenerateMovesOutcome(coll, roots, useOpeningBook) ==
    IF Len(coll) > 0
    THEN LET list == DrainFrom(Cleared(<<>>), coll, 1)
         IN  [list |-> Reverse(list), ret |-> CountResults(list)]
    ELSE IF TakesFallback(useOpeningBook, roots)
         THEN [list |-> Reverse(Append(Cleared(<<>>), Fallback(roots))),
               ret |-> -1]
         ELSE [list |-> Reverse(Cleared(<<>>)), ret |-> -1]

\* C13: a GenerateMovesWithSkill call ends with the result list and the return
\* value that GenerateMoves's drain, fallback, reverse and return steps give
\* for the same callback collection, root moves and opening-book flag.
C13_WithSkillAsGenerateMoves ==
    \A t \in Threads :
        (AtReturn(t) /\ call[t].op = "GenerateMovesWithSkill") =>
            LET outcome == GenerateMovesOutcome(g_bestMoves, rootMoves,
                                                call[t].useOpeningBook)
            IN  /\ Results(t) = outcome.list
                /\ returnValue[t] = outcome.ret

\* a skill-limited search whose collection holds one move twice returns one
\* entry
C13_Witness ==
    \E t \in Threads :
        /\ AtReturn(t)
        /\ call[t].op = "GenerateMovesWithSkill"
        /\ Len(g_bestMoves) = 2
        /\ g_bestMoves[1].move = g_bestMoves[2].move
        /\ returnValue[t] = 1
        /\ Len(Results(t)) = 1

\* the moves that occur in a collection
MovesOf(coll) == {coll[i].move : i \in 1..Len(coll)}

\* C16: a search call never returns 0; it returns at least 1 exactly when the
\* callback collection is non-empty when the search has completed, and then
\* the number of distinct moves in the collection; otherwise it returns -1.
C16_NeverZero ==
    \A t \in Threads :
        AtReturn(t) =>
            /\ returnValue[t] # 0
            /\ returnValue[t] = -1 \/ returnValue[t] >= 1
            /\ returnValue[t] >= 1 <=> Len(g_bestMoves) > 0
            /\ Len(g_bestMoves) > 0 =>
                  returnValue[t] = Cardinality(MovesOf(g_bestMoves))

\* the second search returns fewer than the collection has entries
C16_Witness ==
    \E t \in Threads :
        /\ AtReturn(t)
        /\ searches = MaxSearches
        /\ Len(g_bestMoves) = 2
        /\ returnValue[t] < Len(g_bestMoves)
        /\ Cardinality(MovesOf(g_bestMoves)) = returnValue[t]

\* thread t is inside a search call on engine e between bestMoves.clear()
\* and the end of std::reverse (chessengine.cc:114-129 / 156-171)
Rebuilding(t, e) ==
    /\ call[t].op \in SearchOps
    /\ call[t].engine = e
    /\ pc[t] \in {"collect", "reverse"}

\* C14: the accessors take no lock: an idle thread can run an accessor in
\* every state, whichever thread holds the lock, also while another thread is
\* between clearing the result list and finishing its reversal.
C14_AccessorsTakeNoLock ==
    \A u \in Threads : pc[u] = "idle" => ENABLED Accessor(u)

\* During the first search of the behaviour, whose collection holds move 1
\* (score 0) below move 2 (score 1), GetMove(0) has returned move 1 to thread
\* u while thread t has not yet reversed the list: the completed result set
\* has move 2 at index 0, and before this search the list was empty.
C14_Witness ==
    \E t \in Threads, u \in Threads :
        /\ t # u
        /\ searches = 1
        /\ Rebuilding(t, 1)
        /\ g_thinkLock = t
        /\ Len(g_bestMoves) = 2
        /\ g_bestMoves[1].move = 1 /\ g_bestMoves[2].move = 2
        /\ pc[u] = "return"
        /\ call[u].op = "GetMove" /\ call[u].engine = 1 /\ call[u].index = 0
        /\ returnValue[u] = MoveText(1)

\* C15: every step of a GetMove, GetMoveScore, GetMoveDepth,
\* GetMoveCompletedDepth, Initialize or SetOpeningBook call leaves every
\* engine's result set and the callback collection unchanged, and an engine's
\* result set changes only in a step of a search call on that engine, so an
\* index keeps its values until the next search replaces the result set.
C15_StableBetweenSearches ==
    [][ /\ \A t \in Threads :
              ( /\ pc'[t] # pc[t]
                /\ call[t].op \notin SearchOps
                /\ call'[t].op \notin SearchOps )
              => (bestMoves' = bestMoves /\ g_bestMoves' = g_bestMoves)
        /\ \A e \in Engines :
              bestMoves'[e] # bestMoves[e] =>
                  \E t \in Threads :
                      /\ call[t].op \in SearchOps
                      /\ call[t].engine = e
                      /\ pc[t] \in {"clear", "collect", "reverse"} ]_vars

\* Initialize of the second engine has run while the first engine's result
\* set and the callback collection hold the moves of a finished search
C15_Witness ==
    \E t \in Threads :
        /\ pc[t] = "return"
        /\ call[t].op = "Initialize"
        /\ call[t].engine = 2
        /\ Len(g_bestMoves) = 2
        /\ Len(bestMoves[1]) = 2
        /\ g_thinkLock = t

\* C17: a thread that has returned from a call does not hold the lock, on
\* every return path, and under fair scheduling with searches that finish
\* every thread inside a call (waiting for the lock included) eventually
\* returns from it.
C17_EveryCallReturns ==
    /\ [](\A t \in Threads : pc[t] = "idle" => g_thinkLock # t)
    /\ \A t \in Threads : (pc[t] # "idle") ~> (pc[t] = "idle")

\* a search call is about to return -1 with the fallback entry, holding the
\* lock another search call waits for
C17_Witness ==
    \E t \in Threads, u \in Threads :
        /\ AtReturn(t)
        /\ returnValue[t] = -1
        /\ Len(Results(t)) = 1
        /\ g_thinkLock = t
        /\ pc[u] = "lock"
        /\ call[u].op \in SearchOps

====
